---- MODULE Spec2Model ----
(***************************************************************************)
(* sea-orm, src/entity/base_entity.rs: the EntityTrait factory operations  *)
(* (find, find_by_id, insert, insert_many, update, update_many, delete,    *)
(* delete_many) and the relation constructors (belongs_to, has_one,        *)
(* has_many).                                                              *)
(*                                                                         *)
(* The trait methods are translated from base_entity.rs.  The constructors *)
(* they delegate to (Select::new, Insert::one/many, Update::one/many,      *)
(* Delete::one/many, QueryFilter::filter, col_expr, RelationBuilder::new / *)
(* from_rel, RelationDef::rev) and the tests_cfg entities live outside     *)
(* base_entity.rs; they are modelled from the specification's data model   *)
(* (sections 3, 4 and 6) and from the statements asserted by the doc tests *)
(* of base_entity.rs.                                                      *)
(*                                                                         *)
(* Three specifications share the module; their state is disjoint:         *)
(*   Spec          the query builders and their accumulation               *)
(*   InsertSpec    insert_many applied to a caller-built vector            *)
(*   RelationSpec  the relation declarations of the schema                 *)
(***************************************************************************)
EXTENDS Integers, Sequences, FiniteSets, TLC

VARIABLES
    builder,    \* the builder most recently returned (or the panic that replaced it)
    call,       \* the factory call that produced `builder`
    ops,        \* filter / col_expr calls applied to `builder` since, in call order
    prior,      \* how many filter predicates the builder replaced by `builder` held
    models,     \* the vector a caller hands to insert_many
    inserted,   \* what insert_many returned for `models`
    related,    \* related[S][R]: the RelationDef of S's relation to R, <<>> if none
    declared,   \* declared[S][R]: the constructor that built related[S][R]
    relcall     \* the relation constructor call made last

vars == <<builder, call, ops, prior, models, inserted, related, declared, relcall>>

(***************************************************************************)
(* Bounds of the model.                                                    *)
(***************************************************************************)
MaxArity == 3    \* longest value tuple handed to find_by_id
MaxOps == 2      \* most filter / col_expr calls chained on one builder
MaxRows == 2     \* longest vector handed to insert_many
MaxRels == 3     \* most relations declared in the schema

(***************************************************************************)
(* Entities of tests_cfg used by the doc tests: columns in declaration     *)
(* order and the primary-key variants in declaration order.                *)
(***************************************************************************)
Entities == {"cake", "fruit", "cake_filling"}

Column(E) ==
    CASE E = "cake" -> <<"id", "name">>
      [] E = "fruit" -> <<"id", "name", "cake_id">>
      [] E = "cake_filling" -> <<"cake_id", "filling_id">>

PrimaryKey(E) ==
    CASE E = "cake" -> <<"Id">>
      [] E = "fruit" -> <<"Id">>
      [] E = "cake_filling" -> <<"CakeId", "FillingId">>

\* PrimaryKeyToColumn::into_column: the column a primary-key variant stands for.
into_column(key) ==
    CASE key = "Id" -> "id"
      [] key = "CakeId" -> "cake_id"
      [] key = "FillingId" -> "filling_id"

\* PrimaryKeyToColumn::from_column: whether a column is part of the primary key.
from_column(E, col) ==
    \E i \in 1..Len(PrimaryKey(E)) : into_column(PrimaryKey(E)[i]) = col

ColumnSet(E) == {Column(E)[i] : i \in 1..Len(Column(E))}

(***************************************************************************)
(* Values.  A bound value is an opaque typed parameter; NULL and strings   *)
(* are kept apart from integers.                                           *)
(***************************************************************************)
Values == {2, 3}
Patterns == {"Apple"}

IntVal(v) == [int |-> v]
StrVal(s) == [str |-> s]
Null == [null |-> TRUE]

\* ColumnTrait::eq and ColumnTrait::contains: the predicates used by the code.
eq(col, v) == [col |-> col, op |-> "=", val |-> IntVal(v)]
contains(col, s) == [col |-> col, op |-> "LIKE", val |-> StrVal("%" \o s \o "%")]

(***************************************************************************)
(* ActiveModel (the changeset): every column is NotSet or Set(v).          *)
(***************************************************************************)
NotSet == <<>>
Set(v) == <<v>>
is_set(av) == av # NotSet
unwrap(av) == av[1]

ActiveValues == {NotSet} \cup {Set(v) : v \in Values}
ActiveModels(E) == [ColumnSet(E) -> ActiveValues]

\* Every primary-key column of the changeset carries a value.
KeySet(E, model) ==
    \A i \in 1..Len(PrimaryKey(E)) : is_set(model[into_column(PrimaryKey(E)[i])])

(***************************************************************************)
(* Builders.  One record shape for the four statement kinds.  Throughout   *)
(* the module a record's fields are written in the order in which the      *)
(* field names first appear in it, which is the order TLC keeps them in.   *)
(***************************************************************************)
NoBuilder == [kind |-> "None"]
Panic(msg) == [kind |-> "Panic", msg |-> msg]

Statement(kind, E) ==
    [kind |-> kind, table |-> E, columns |-> <<>>, filters |-> <<>>,
     values |-> <<>>, rows |-> <<>>]

\* QueryFilter::filter: the predicate is AND-ed after the ones already held.
filter(b, pred) == [b EXCEPT !.filters = Append(@, pred)]

\* UpdateMany::col_expr: one more column assignment, after the ones already held.
col_expr(b, col, expr) == [b EXCEPT !.values = Append(@, <<col, expr>>)]

\* Select::new: all declared columns of the entity's table, no filter.
Select_new(E) == [Statement("Select", E) EXCEPT !.columns = Column(E)]

RECURSIVE KeyFilters(_, _, _)
\* Equality on each primary-key column with the changeset's value, in key order.
KeyFilters(b, keys, model) ==
    IF keys = <<>> THEN b
    ELSE KeyFilters(filter(b, eq(into_column(Head(keys)),
                                 unwrap(model[into_column(Head(keys))]))),
                    Tail(keys), model)

RECURSIVE SetPairs(_, _)
\* The (column, value) pairs of the set columns among `cols`, in the order of `cols`.
SetPairs(cols, model) ==
    IF cols = <<>> THEN <<>>
    ELSE IF is_set(model[Head(cols)])
         THEN <<<<Head(cols), IntVal(unwrap(model[Head(cols)]))>>>>
              \o SetPairs(Tail(cols), model)
         ELSE SetPairs(Tail(cols), model)

\* The columns of the entity outside its primary key, in declaration order.
NonKeyColumns(E) == SelectSeq(Column(E), LAMBDA c : ~from_column(E, c))

\* One row of an insert: the set columns in declaration order, unset ones omitted.
Row(E, model) == SetPairs(Column(E), model)

\* Insert::one: a builder carrying exactly one changeset.
Insert_one(E, model) == [Statement("Insert", E) EXCEPT !.rows = <<Row(E, model)>>]

\* Insert::many: a builder carrying the changesets in the order given.
Insert_many(E, ms) ==
    [Statement("Insert", E) EXCEPT !.rows = [i \in 1..Len(ms) |-> Row(E, ms[i])]]

\* Update::one: assigns the set non-key columns, scoped by the primary key.
Update_one(E, model) ==
    KeyFilters([Statement("UpdateOne", E) EXCEPT
                   !.values = SetPairs(NonKeyColumns(E), model)],
               PrimaryKey(E), model)

\* Update::many: no assignment and no scope yet.
Update_many(E) == Statement("UpdateMany", E)

\* Delete::one: scoped by the primary key of the model.
Delete_one(E, model) == KeyFilters(Statement("DeleteOne", E), PrimaryKey(E), model)

\* Delete::many: no scope yet.
Delete_many(E) == Statement("DeleteMany", E)

(***************************************************************************)
(* Relations.  A RelationDef is a directed edge with a cardinality tag.    *)
(***************************************************************************)
NoRelation == <<>>

\* RelationBuilder::new: an edge from `from` to `to` with the given cardinality.
RelationBuilder_new(rel_type, from, to) ==
    [rel_type |-> rel_type, from_tbl |-> from, to_tbl |-> to]

\* RelationDef::rev: the same edge seen from its other end.
rev(def) == [def EXCEPT !.from_tbl = def.to_tbl, !.to_tbl = def.from_tbl]

\* RelationBuilder::from_rel: the edge of `def`, tagged with the given cardinality.
RelationBuilder_from_rel(rel_type, def) == [def EXCEPT !.rel_type = rel_type]

\* <R as Related<S>>::to(): the edge R registered towards S.
to(R, S) == related[R][S]

(***************************************************************************)
(* EntityTrait, base_entity.rs.                                            *)
(***************************************************************************)
belongs_to(S, R) == RelationBuilder_new("HasOne", S, R)

has_one(S, R) == RelationBuilder_from_rel("HasOne", rev(to(R, S)))

\* has_many taking R's edge as it is, without reversing it.
has_many_unreversed(S, R) == RelationBuilder_from_rel("HasMany", to(R, S))

has_many(S, R) == RelationBuilder_from_rel("HasMany", rev(to(R, S)))

\* find, projecting the primary-key columns only.
find_key_columns(E) ==
    [Select_new(E) EXCEPT
        !.columns = [i \in 1..Len(PrimaryKey(E)) |-> into_column(PrimaryKey(E)[i])]]

find(E) == Select_new(E)

RECURSIVE find_by_id_loop_unchecked(_, _, _)
\* find_by_id's loop without the check for keys left over after the loop.
find_by_id_loop_unchecked(select, values, keys) ==
    IF values # <<>>
    THEN IF keys # <<>>
         THEN find_by_id_loop_unchecked(
                  filter(select, eq(into_column(Head(keys)), Head(values))),
                  Tail(values), Tail(keys))
         ELSE Panic("primary key arity mismatch")
    ELSE select

RECURSIVE find_by_id_loop_prepending(_, _, _)
\* find_by_id's loop putting each new predicate before the ones already held.
find_by_id_loop_prepending(select, values, keys) ==
    IF values # <<>>
    THEN IF keys # <<>>
         THEN find_by_id_loop_prepending(
                  [select EXCEPT !.filters =
                      <<eq(into_column(Head(keys)), Head(values))>> \o @],
                  Tail(values), Tail(keys))
         ELSE Panic("primary key arity mismatch")
    ELSE IF keys # <<>>
         THEN Panic("primary key arity mismatch")
         ELSE select

RECURSIVE find_by_id_loop(_, _, _)
\* The for loop over the supplied values against the key iterator `keys`, and
\* the check that follows it.
find_by_id_loop(select, values, keys) ==
    IF values # <<>>
    THEN IF keys # <<>>
         THEN find_by_id_loop(filter(select, eq(into_column(Head(keys)), Head(values))),
                              Tail(values), Tail(keys))
         ELSE Panic("primary key arity mismatch")
    ELSE IF keys # <<>>
         THEN Panic("primary key arity mismatch")
         ELSE select

find_by_id(E, values) == find_by_id_loop(find(E), values, PrimaryKey(E))

insert(E, model) == Insert_one(E, model)

\* insert_many handing the vector over back to front.
insert_many_reversed(E, ms) ==
    Insert_many(E, [i \in 1..Len(ms) |-> ms[Len(ms) + 1 - i]])

insert_many(E, ms) == Insert_many(E, ms)

\* update assigning every set column, the primary key included.
update_assigning_key(E, model) ==
    [Update_one(E, model) EXCEPT !.values = SetPairs(Column(E), model)]

update(E, model) == Update_one(E, model)

\* update_many keeping the scope of the builder it replaces.
update_many_keeping_scope(E) ==
    [Update_many(E) EXCEPT
        !.filters = IF builder.kind \in {"None", "Panic"} THEN <<>> ELSE builder.filters]

\* update_many clearing the first column without being asked to.
update_many_clearing(E) == col_expr(Update_many(E), Column(E)[1], Null)

update_many(E) == Update_many(E)

RECURSIVE SetFilters(_, _, _)
\* Equality on every set column among `cols`.
SetFilters(b, cols, model) ==
    IF cols = <<>> THEN b
    ELSE IF is_set(model[Head(cols)])
         THEN SetFilters(filter(b, eq(Head(cols), unwrap(model[Head(cols)]))),
                         Tail(cols), model)
         ELSE SetFilters(b, Tail(cols), model)

\* delete scoped by every set column of the model, not by its primary key alone.
delete_by_set_columns(E, model) == SetFilters(Statement("DeleteOne", E), Column(E), model)

delete(E, model) == Delete_one(E, model)

delete_many(E) == Delete_many(E)

(***************************************************************************)
(* Inputs.                                                                 *)
(***************************************************************************)
Tuples(S, n) == UNION {[1..k -> S] : k \in 1..n}
Vectors(S, n) == UNION {[1..k -> S] : k \in 0..n}

Accumulating == {"Select", "UpdateMany", "DeleteMany"}

(***************************************************************************)
(* Spec: the query builders.                                               *)
(***************************************************************************)
Fixed == <<models, inserted, related, declared, relcall>>

\* The number of filter predicates a builder holds (none for a panic).
HeldFilters(b) == IF b.kind \in {"None", "Panic"} THEN 0 ELSE Len(b.filters)

Returned(b, c) ==
    /\ builder' = b
    /\ call' = c
    /\ ops' = <<>>
    /\ prior' = HeldFilters(builder)
    /\ UNCHANGED Fixed

CallFind ==
    \E E \in Entities :
        Returned(find(E), [op |-> "find", entity |-> E])

CallFindById ==
    \E E \in Entities : \E values \in Tuples(Values, MaxArity) :
        Returned(find_by_id(E, values),
                 [op |-> "find_by_id", values |-> values, entity |-> E])

CallInsert ==
    \E E \in Entities : \E model \in ActiveModels(E) :
        Returned(insert(E, model), [op |-> "insert", model |-> model, entity |-> E])

\* update and delete are given a changeset that identifies its row.
CallUpdate ==
    \E E \in Entities : \E model \in ActiveModels(E) :
        /\ KeySet(E, model)
        /\ Returned(update(E, model), [op |-> "update", model |-> model, entity |-> E])

CallUpdateMany ==
    \E E \in Entities :
        Returned(update_many(E), [op |-> "update_many", entity |-> E])

CallDelete ==
    \E E \in Entities : \E model \in ActiveModels(E) :
        /\ KeySet(E, model)
        /\ Returned(delete(E, model), [op |-> "delete", model |-> model, entity |-> E])

CallDeleteMany ==
    \E E \in Entities :
        Returned(delete_many(E), [op |-> "delete_many", entity |-> E])

\* builder.filter(column.contains(pattern)) on a builder that accumulates filters.
CallFilter ==
    /\ builder.kind \in Accumulating
    /\ Len(ops) < MaxOps
    /\ \E col \in ColumnSet(builder.table) : \E s \in Patterns :
        /\ builder' = filter(builder, contains(col, s))
        /\ ops' = Append(ops, [op |-> "filter", pred |-> contains(col, s)])
    /\ UNCHANGED <<call, prior, Fixed>>

\* builder.col_expr(column, expr) on an update_many builder.
CallColExpr ==
    /\ builder.kind = "UpdateMany"
    /\ Len(ops) < MaxOps
    /\ \E col \in ColumnSet(builder.table) :
       \E expr \in {Null} \cup {IntVal(v) : v \in Values} :
        /\ builder' = col_expr(builder, col, expr)
        /\ ops' = Append(ops, [col |-> col, op |-> "col_expr", expr |-> expr])
    /\ UNCHANGED <<call, prior, Fixed>>

Init ==
    /\ builder = NoBuilder
    /\ call = [op |-> "none"]
    /\ ops = <<>>
    /\ prior = 0
    /\ models = <<>>
    /\ inserted = NoBuilder
    /\ related = [S \in Entities |-> [R \in Entities |-> NoRelation]]
    /\ declared = [S \in Entities |-> [R \in Entities |-> "none"]]
    /\ relcall = [op |-> "none"]

Next ==
    \/ CallFind
    \/ CallFindById
    \/ CallInsert
    \/ CallUpdate
    \/ CallUpdateMany
    \/ CallDelete
    \/ CallDeleteMany
    \/ CallFilter
    \/ CallColExpr

Spec == Init /\ [][Next]_vars

(***************************************************************************)
(* InsertSpec: insert_many applied to the vector the caller built.         *)
(***************************************************************************)
InitInsert ==
    /\ builder = NoBuilder
    /\ call = [op |-> "none"]
    /\ ops = <<>>
    /\ prior = 0
    /\ \E E \in Entities : \E ms \in Vectors(ActiveModels(E), MaxRows) :
        models = [ms |-> ms, entity |-> E]
    /\ inserted = NoBuilder
    /\ related = [S \in Entities |-> [R \in Entities |-> NoRelation]]
    /\ declared = [S \in Entities |-> [R \in Entities |-> "none"]]
    /\ relcall = [op |-> "none"]

CallInsertMany ==
    /\ inserted.kind = "None"
    /\ inserted' = insert_many(models.entity, models.ms)
    /\ UNCHANGED <<builder, call, ops, prior, models, related, declared, relcall>>

NextInsert == CallInsertMany

InsertSpec == InitInsert /\ [][NextInsert]_vars

(***************************************************************************)
(* RelationSpec: the relation declarations of a schema.  related[S][R] is  *)
(* what S answers as Related<R>; a constructor whose result is not the     *)
(* first edge from S to R is still evaluated, and only recorded in relcall.*)
(***************************************************************************)
Registered == {<<S, R>> \in Entities \X Entities : related[S][R] # NoRelation}

Built(op, S, R, def) ==
    /\ relcall' = [related |-> R, op |-> op, def |-> def, self |-> S]
    /\ IF related[S][R] = NoRelation /\ Cardinality(Registered) < MaxRels
       THEN /\ related' = [related EXCEPT ![S][R] = def]
            /\ declared' = [declared EXCEPT ![S][R] = op]
       ELSE UNCHANGED <<related, declared>>
    /\ UNCHANGED <<builder, call, ops, prior, models, inserted>>

CallBelongsTo ==
    \E S \in Entities : \E R \in Entities :
        Built("belongs_to", S, R, belongs_to(S, R))

\* has_one and has_many need R: Related<Self>.
CallHasOne ==
    \E S \in Entities : \E R \in Entities :
        /\ to(R, S) # NoRelation
        /\ Built("has_one", S, R, has_one(S, R))

CallHasMany ==
    \E S \in Entities : \E R \in Entities :
        /\ to(R, S) # NoRelation
        /\ Built("has_many", S, R, has_many(S, R))

NextRelation ==
    \/ CallBelongsTo
    \/ CallHasOne
    \/ CallHasMany

RelationSpec == Init /\ [][NextRelation]_vars

(***************************************************************************)
(* Properties.                                                             *)
(***************************************************************************)
Arity(E) == Len(PrimaryKey(E))
KeyColumn(E, i) == into_column(PrimaryKey(E)[i])
KeyColumns(E) == {KeyColumn(E, i) : i \in 1..Arity(E)}
SetColumns(E, model) == {c \in ColumnSet(E) : is_set(model[c])}

\* The filter predicates and the assignments among the calls of `ops`, in call order.
FiltersOf(os) ==
    LET fs == SelectSeq(os, LAMBDA o : o.op = "filter")
    IN  [i \in 1..Len(fs) |-> fs[i].pred]
AssignmentsOf(os) ==
    LET cs == SelectSeq(os, LAMBDA o : o.op = "col_expr")
    IN  [i \in 1..Len(cs) |-> <<cs[i].col, cs[i].expr>>]

\* The pairs of `pairs` are exactly the columns of `cols`, once each, with the
\* value the changeset holds for them.
ExactlyPairs(pairs, cols, model) ==
    /\ Len(pairs) = Cardinality(cols)
    /\ \A c \in cols : \E j \in 1..Len(pairs) : pairs[j] = <<c, [int |-> model[c][1]]>>

\* C1: find_by_id panics whenever the number of supplied values differs from the
\* number of primary-key columns (fewer or more), and returns a Select builder
\* only when the two are equal.
C1_ArityMismatchIsFatal ==
    call.op = "find_by_id" =>
        IF Len(call.values) = Arity(call.entity)
        THEN builder.kind = "Select"
        ELSE builder.kind = "Panic" /\ builder.msg = "primary key arity mismatch"

C1_Witness ==
    /\ call.op = "find_by_id"
    /\ call.entity = "cake_filling"
    /\ Len(call.values) = 1
    /\ builder.kind = "Panic"

\* C2: for an N-tuple of values, find_by_id returns a Select builder whose filter
\* list is exactly the N equalities (i-th primary-key column = i-th value), in
\* primary-key declaration order, and nothing else.
C2_FindByIdFilters ==
    (/\ call.op = "find_by_id"
     /\ Len(call.values) = Arity(call.entity)
     /\ ops = <<>>) =>
        /\ builder.kind = "Select"
        /\ builder.table = call.entity
        /\ builder.filters =
               [i \in 1..Arity(call.entity) |->
                   [col |-> KeyColumn(call.entity, i), op |-> "=",
                    val |-> [int |-> call.values[i]]]]

C2_Witness ==
    /\ call.op = "find_by_id"
    /\ call.entity = "cake_filling"
    /\ call.values = <<2, 3>>
    /\ builder.filters = <<[col |-> "cake_id", op |-> "=", val |-> [int |-> 2]],
                           [col |-> "filling_id", op |-> "=", val |-> [int |-> 3]]>>

\* C3: delete(model) returns a Delete builder whose filter list is exactly one
\* equality per primary-key column with the model's value for it, in primary-key
\* declaration order, and no predicate on a column outside the key.
C3_DeleteByPrimaryKey ==
    call.op = "delete" =>
        /\ builder.kind = "DeleteOne"
        /\ builder.table = call.entity
        /\ builder.filters =
               [i \in 1..Arity(call.entity) |->
                   [col |-> KeyColumn(call.entity, i), op |-> "=",
                    val |-> [int |-> call.model[KeyColumn(call.entity, i)][1]]]]
        /\ \A j \in 1..Len(builder.filters) :
               builder.filters[j].col \in KeyColumns(call.entity)

C3_Witness ==
    /\ call.op = "delete"
    /\ call.entity = "fruit"
    /\ call.model["id"] = <<3>>
    /\ call.model["name"] # <<>>
    /\ builder.filters = <<[col |-> "id", op |-> "=", val |-> [int |-> 3]]>>

\* C4: insert_many(cs) returns one Insert builder whose row list has one row per
\* changeset of cs, the i-th row carrying the set columns of the i-th changeset:
\* same length, same order, nothing dropped or duplicated, no rows for the empty
\* vector.
C4_InsertManyKeepsOrder ==
    inserted.kind # "None" =>
        /\ inserted.kind = "Insert"
        /\ inserted.table = models.entity
        /\ Len(inserted.rows) = Len(models.ms)
        /\ \A i \in 1..Len(models.ms) :
               ExactlyPairs(inserted.rows[i],
                            SetColumns(models.entity, models.ms[i]), models.ms[i])

C4_Witness ==
    /\ inserted.kind = "Insert"
    /\ models.entity = "cake"
    /\ Len(models.ms) = 2
    /\ inserted.rows = <<<<<<"name", [int |-> 2]>>>>, <<<<"name", [int |-> 3]>>>>>>

\* C5: whatever builder was held before, and whatever filters it had accumulated,
\* a freshly constructed update_many() or delete_many() builder carries no filter
\* predicate.
C5_ManyBuildersStartUnscoped ==
    (call.op \in {"update_many", "delete_many"} /\ ops = <<>>) =>
        /\ builder.kind = (IF call.op = "update_many" THEN "UpdateMany" ELSE "DeleteMany")
        /\ builder.table = call.entity
        /\ builder.filters = <<>>

C5_Witness ==
    /\ call.op = "update_many"
    /\ ops = <<>>
    /\ prior > 0
    /\ builder.filters = <<>>

C8_UpdateScopedByKey ==
    call.op = "update" =>
        /\ builder.kind = "UpdateOne"
        /\ builder.table = call.entity
        /\ builder.filters =
               [i \in 1..Arity(call.entity) |->
                   [col |-> KeyColumn(call.entity, i), op |-> "=",
                    val |-> [int |-> call.model[KeyColumn(call.entity, i)][1]]]]
        /\ ExactlyPairs(builder.values,
                        SetColumns(call.entity, call.model) \ KeyColumns(call.entity),
                        call.model)

C8_Witness ==
    /\ call.op = "update"
    /\ call.entity = "fruit"
    /\ call.model["cake_id"] = <<>>
    /\ builder.values = <<<<"name", [int |-> 3]>>>>
    /\ builder.filters = <<[col |-> "id", op |-> "=", val |-> [int |-> 2]]>>

\* C9: an update_many() builder followed by col_expr and filter calls carries
\* exactly the assignments of the col_expr calls and exactly the predicates of
\* the filter calls, each in call order, and nothing else.
C9_UpdateManyAccumulates ==
    call.op = "update_many" =>
        /\ builder.kind = "UpdateMany"
        /\ builder.values = AssignmentsOf(ops)
        /\ builder.filters = FiltersOf(ops)

C9_Witness ==
    /\ call.op = "update_many"
    /\ call.entity = "fruit"
    /\ Len(ops) = 2
    /\ builder.values = <<<<"cake_id", [null |-> TRUE]>>>>
    /\ builder.filters = <<[col |-> "name", op |-> "LIKE", val |-> [str |-> "%Apple%"]]>>

\* C10: find() returns a Select builder on the entity's own table with no filter
\* predicate, projecting every declared column once, in declaration order.
C10_FindSelectsAllColumns ==
    (call.op = "find" /\ ops = <<>>) =>
        /\ builder.kind = "Select"
        /\ builder.table = call.entity
        /\ builder.filters = <<>>
        /\ builder.columns = Column(call.entity)

C10_Witness ==
    /\ call.op = "find"
    /\ call.entity = "fruit"
    /\ builder.columns = <<"id", "name", "cake_id">>
    /\ builder.filters = <<>>

====
